---- MODULE Spec2Model ----
(***************************************************************************)
(* Model of example-nodejs-app/app.js: an Express application with three   *)
(* middleware (cors, express.json, express.static('public')), three GET    *)
(* routes and one listener.                                                *)
(*                                                                         *)
(* JavaScript strings that the program computes with (environment values,  *)
(* process.version, ISO timestamps) are sequences of one-character         *)
(* strings; fixed literal texts of the source are TLA+ strings.            *)
(***************************************************************************)
EXTENDS Integers, Sequences, FiniteSets, TLC

VARIABLES
    envPORT,      \* process.env.PORT
    envNODE_ENV,  \* process.env.NODE_ENV
    publicDir,    \* what the directory 'public' holds at each looked-up path
    phase,        \* position of the process in app.js
    PORT,         \* the constant PORT of line 4
    bound,        \* the endpoint the listener is bound to
    stdout,       \* lines written by console.log
    wall,         \* wall clock, ms since the epoch (new Date())
    mono,         \* monotonic clock, ms since process start (process.uptime())
    inflight,     \* requests suspended in the middleware chain, by connection
    out,          \* the response written by the last step, NoResp if none
    prevUptime    \* uptime shown by the latest GET /api/health response written
                  \* before the last step, -1 if none

vars == <<envPORT, envNODE_ENV, publicDir, phase, PORT, bound, stdout,
          wall, mono, inflight, out, prevUptime>>

(***************************************************************************)
(* Bounds                                                                  *)
(***************************************************************************)
MaxTime == 1
MaxPortLen == 2

(***************************************************************************)
(* JavaScript values                                                       *)
(***************************************************************************)
Undefined == [t |-> "undefined"]
Str(s) == [t |-> "string", s |-> s]
Num(n) == [t |-> "number", n |-> n]

\* ToBoolean on undefined, strings and numbers
Truthy(v) ==
    CASE v.t = "undefined" -> FALSE
      [] v.t = "string" -> v.s # <<>>
      [] v.t = "number" -> v.n # 0

\* a || b
JsOr(a, b) == IF Truthy(a) THEN a ELSE b

\* An environment variable: absent, or a string
EnvUnset == [set |-> FALSE]
EnvSet(s) == [set |-> TRUE, val |-> s]
ProcessEnv(e) == IF e.set THEN Str(e.val) ELSE Undefined

Digits == <<"0", "1", "2", "3", "4", "5", "6", "7", "8", "9">>
IsDigit(c) == \E i \in 1..10 : Digits[i] = c
DigitVal(c) == (CHOOSE i \in 1..10 : Digits[i] = c) - 1
AllDigits(s) == \A i \in 1..Len(s) : IsDigit(s[i])

RECURSIVE DecValue(_)
DecValue(s) ==
    IF s = <<>> THEN 0
    ELSE DecValue(SubSeq(s, 1, Len(s) - 1)) * 10 + DigitVal(s[Len(s)])

NaN == [nan |-> TRUE]
Finite(n) == [nan |-> FALSE, n |-> n]

\* Number(s) for strings over digits, "-" and letters
JsNumber(s) ==
    IF s = <<>> THEN Finite(0)
    ELSE IF AllDigits(s) THEN Finite(DecValue(s))
    ELSE IF s[1] = "-" /\ Len(s) > 1 /\ AllDigits(Tail(s))
         THEN Finite(0 - DecValue(Tail(s)))
    ELSE NaN

\* Decimal digits of a natural number
RECURSIVE DecString(_)
DecString(n) ==
    IF n < 10 THEN <<Digits[n + 1]>>
    ELSE DecString(n \div 10) \o <<Digits[(n % 10) + 1]>>

\* String(n).padStart(w, '0')
Pad(n, w) ==
    LET s == DecString(n) IN [i \in 1..(w - Len(s)) |-> "0"] \o s

\* `${v}` for strings and natural numbers
JsToString(v) ==
    CASE v.t = "string" -> v.s
      [] v.t = "number" -> DecString(v.n)
      [] v.t = "undefined" ->
            <<"u", "n", "d", "e", "f", "i", "n", "e", "d">>

\* Date.prototype.toISOString for a time within January 1970
ToISOString(ms) ==
    LET day == ms \div 86400000
        rest == ms % 86400000
        hh == rest \div 3600000
        mm == (rest % 3600000) \div 60000
        ss == (rest % 60000) \div 1000
        sss == rest % 1000
    IN <<"1", "9", "7", "0", "-", "0", "1", "-">> \o Pad(day + 1, 2)
         \o <<"T">> \o Pad(hh, 2) \o <<":">> \o Pad(mm, 2) \o <<":">>
         \o Pad(ss, 2) \o <<".">> \o Pad(sss, 3) \o <<"Z">>

Development == <<"d", "e", "v", "e", "l", "o", "p", "m", "e", "n", "t">>
Production == <<"p", "r", "o", "d", "u", "c", "t", "i", "o", "n">>

\* process.version
ProcessVersion == <<"v", "1", "8", ".", "1", "9", ".", "0">>

(***************************************************************************)
(* Start of the process                                                    *)
(***************************************************************************)
\* Variant: parseInt(process.env.PORT) || 3000
PortConstParsed(e) ==
    LET v == ProcessEnv(e) IN
    IF v.t = "string" /\ v.s # <<>> /\ AllDigits(v.s)
    THEN JsOr(Num(DecValue(v.s)), Num(3000))
    ELSE Num(3000)

\* const PORT = process.env.PORT || 3000
PortConst(e) == JsOr(ProcessEnv(e), Num(3000))

\* process.env.NODE_ENV || 'development', as the listen callback reads it
StartupEnv(e) == JsOr(ProcessEnv(e), Str(Development)).s

\* What app.listen(p) does with its first argument (net.Server.listen):
\* a string that is no number >= 0 is a pipe name; otherwise the port must
\* be an integer in 0..65535 or the call throws; port 0 lets the system
\* choose the port.
ListenTarget(p) ==
    IF p.t = "number"
    THEN IF p.n >= 0 /\ p.n <= 65535
         THEN [kind |-> "tcp", port |-> p.n] ELSE [kind |-> "throw"]
    ELSE LET x == JsNumber(p.s) IN
         IF x.nan \/ x.n < 0 THEN [kind |-> "pipe", path |-> p.s]
         ELSE IF x.n > 65535 THEN [kind |-> "throw"]
         ELSE [kind |-> "tcp", port |-> x.n]

EphemeralPorts == {49152, 49153}
NotBound == [kind |-> "none"]
NoResp == [k |-> "none"]
Idle == [stage |-> "idle"]

\* The uptime a response shows, if it shows one
ShownUptime(r, prev) ==
    IF r.k = "resp" /\ r.handler = "health" /\ r.body.kind = "json"
    THEN r.body.json.uptime
    ELSE prev

\* Every step notes the uptime of the health response written before it
Remember == prevUptime' = ShownUptime(out, prevUptime)

\* Lines 1-74: the constant PORT is computed, middleware and routes are registered
Load ==
    /\ phase = "start"
    /\ phase' = "loaded"
    /\ PORT' = PortConst(envPORT)
    /\ out' = NoResp
    /\ Remember
    /\ UNCHANGED <<envPORT, envNODE_ENV, publicDir, bound, stdout, wall, mono,
                   inflight>>

\* The endpoints a listen target can end up bound to
Bindings(t) ==
    CASE t.kind = "throw" -> {NotBound}
      [] t.kind = "pipe" -> {t}
      [] t.kind = "tcp" /\ t.port # 0 -> {t}
      [] OTHER -> {[kind |-> "tcp", port |-> q] : q \in EphemeralPorts}

\* Line 76: app.listen(PORT, callback) binds the listener, or throws and
\* the process ends
Listen ==
    /\ phase = "loaded"
    /\ LET t == ListenTarget(PORT) IN
         /\ phase' = IF t.kind = "throw" THEN "crashed" ELSE "bound"
         /\ bound' \in Bindings(t)
    /\ out' = NoResp
    /\ Remember
    /\ UNCHANGED <<envPORT, envNODE_ENV, publicDir, PORT, stdout, wall, mono,
                   inflight>>

\* Lines 77-78: the listen callback writes the two startup lines
OnListening ==
    /\ phase = "bound"
    /\ phase' = "listening"
    /\ stdout' = stdout \o
          << <<[lit |-> "Simple Blog App server running on port "],
               [val |-> JsToString(PORT)]>>,
             <<[lit |-> "Environment: "],
               [val |-> StartupEnv(envNODE_ENV)]>> >>
    /\ out' = NoResp
    /\ Remember
    /\ UNCHANGED <<envPORT, envNODE_ENV, publicDir, PORT, bound, wall, mono,
                   inflight>>

(***************************************************************************)
(* Requests and responses                                                  *)
(***************************************************************************)
Methods == {"GET", "HEAD", "POST", "OPTIONS"}
Paths == {"/", "/api/health", "/api/info", "/logo.png"}
\* A request carries no body for express.json to read, a JSON body that
\* parses, or a body sent as application/json that does not parse.  Requests
\* carry no conditional or range headers, and paths are matched as written.
Bodies == {"none", "json", "malformed"}
Requests == [method : Methods, path : Paths, body : Bodies]

Html == [media |-> "text/html", charset |-> "utf-8"]
Json == [media |-> "application/json", charset |-> "utf-8"]
NoType == [media |-> "none", charset |-> "none"]
NoBody == [kind |-> "none"]

Response(req, hdr, status, ctype, body, by, handler, trace) ==
    [k |-> "resp", req |-> req, status |-> status, ctype |-> ctype,
     acao |-> hdr.acao, body |-> IF req.method = "HEAD" THEN NoBody ELSE body,
     by |-> by, handler |-> handler, trace |-> trace]

Responded(r) == [k |-> "resp", resp |-> r]
Suspended(req, hdr, stage, trace) ==
    [k |-> "wait",
     entry |-> [stage |-> stage, req |-> req, hdr |-> hdr, trace |-> trace]]

\* Variant: cors({origin: 'https://example.com'})
CorsHeadersAllowList == [acao |-> "https://example.com"]

\* cors(): Access-Control-Allow-Origin: * on every request
CorsHeaders == [acao |-> "*"]

\* cors() on an OPTIONS request: status 204, empty body, the chain ends
CorsPreflight(req, hdr, trace) ==
    Response(req, hdr, 204, NoType, NoBody, "cors", "none", trace)

\* The default error responder of the framework: it keeps the headers set
\* so far and writes its own HTML document
FinalHandler(req, hdr, status, trace) ==
    Response(req, hdr, status, Html,
             [kind |-> "html",
              chunks |-> <<[lit |-> IF status = 404 THEN "Cannot " ELSE "Bad Request"]>>],
             "final", "none", trace \o <<"final">>)

\* process.env.NODE_ENV || 'development' in the home page
HomeEnv(e) == JsOr(ProcessEnv(e), Str(Development)).s

\* Variant: process.env.NODE_ENV || 'production'
InfoEnvProduction(e) == JsOr(ProcessEnv(e), Str(Production)).s

\* process.env.NODE_ENV || 'development' in /api/info
InfoEnv(e) == JsOr(ProcessEnv(e), Str(Development)).s

\* Variant: the home page without its timestamp line
HomeHandlerNoStamp(req, hdr, trace, env, w) ==
    Response(req, hdr, 200, Html,
             [kind |-> "html",
              chunks |-> <<[lit |-> "<title>"], [lit |-> "Simple Blog App"],
                           [lit |-> "</title>"], [lit |-> "<h1>"],
                           [lit |-> "Simple Blog App"], [lit |-> "</h1>"],
                           [lit |-> "Node.js Version:"], [val |-> ProcessVersion],
                           [lit |-> "Environment:"], [val |-> HomeEnv(env)],
                           [lit |-> "API Endpoints"]>>],
             "route", "home", trace)

\* app.get('/')
HomeHandler(req, hdr, trace, env, w) ==
    Response(req, hdr, 200, Html,
             [kind |-> "html",
              chunks |-> <<[lit |-> "<title>"], [lit |-> "Simple Blog App"],
                           [lit |-> "</title>"], [lit |-> "<h1>"],
                           [lit |-> "Simple Blog App"], [lit |-> "</h1>"],
                           [lit |-> "Node.js Version:"], [val |-> ProcessVersion],
                           [lit |-> "Environment:"], [val |-> HomeEnv(env)],
                           [lit |-> "Timestamp:"], [val |-> ToISOString(w)],
                           [lit |-> "API Endpoints"]>>],
             "route", "home", trace)

HealthWith(req, hdr, trace, status, w, up) ==
    Response(req, hdr, 200, Json,
             [kind |-> "json",
              json |-> [status |-> status, timestamp |-> ToISOString(w), uptime |-> up]],
             "route", "health", trace)

\* Variant: status 'ok'
HealthHandlerOk(req, hdr, trace, w, m) == HealthWith(req, hdr, trace, "ok", w, m)

\* Variant: uptime taken from the wall clock, Date.now() / 1000
HealthHandlerWallUptime(req, hdr, trace, w, m) ==
    HealthWith(req, hdr, trace, "healthy", w, w \div 1000)

\* Variant: uptime counted from the health check before, kept in a variable
\* of the module
HealthHandlerSinceLast(req, hdr, trace, w, m) ==
    HealthWith(req, hdr, trace, "healthy", w,
               IF prevUptime >= 0 THEN m - prevUptime ELSE m)

\* app.get('/api/health')
HealthHandler(req, hdr, trace, w, m) ==
    Response(req, hdr, 200, Json,
             [kind |-> "json",
              json |-> [status |-> "healthy",
                        timestamp |-> ToISOString(w),
                        uptime |-> m]],
             "route", "health", trace)

\* Variant: version '1.0'
InfoHandlerStale(req, hdr, trace, env, w) ==
    Response(req, hdr, 200, Json,
             [kind |-> "json",
              json |-> [status |-> "success",
                        message |-> "Simple Blog App Node.js Application",
                        version |-> "1.0",
                        node_version |-> ProcessVersion,
                        environment |-> InfoEnv(env),
                        timestamp |-> ToISOString(w)]],
             "route", "info", trace)

\* app.get('/api/info')
InfoHandler(req, hdr, trace, env, w) ==
    Response(req, hdr, 200, Json,
             [kind |-> "json",
              json |-> [status |-> "success",
                        message |-> "Simple Blog App Node.js Application",
                        version |-> "1.0.0",
                        node_version |-> ProcessVersion,
                        environment |-> InfoEnv(env),
                        timestamp |-> ToISOString(w)]],
             "route", "info", trace)

\* Variant: the routes registered with app.all, answering every method
RouterAll(req, hdr, trace0, env, w, m) ==
    LET trace == trace0 \o <<"route">> IN
    IF req.path = "/" THEN HomeHandler(req, hdr, trace, env, w)
    ELSE IF req.path = "/api/health" THEN HealthHandler(req, hdr, trace, w, m)
    ELSE IF req.path = "/api/info" THEN InfoHandler(req, hdr, trace, env, w)
    ELSE FinalHandler(req, hdr, 404, trace)

\* Route dispatch: app.get routes answer GET and HEAD; anything else falls
\* to the default responder with 404
Router(req, hdr, trace0, env, w, m) ==
    LET trace == trace0 \o <<"route">> IN
    IF req.method \in {"GET", "HEAD"} /\ req.path = "/"
    THEN HomeHandler(req, hdr, trace, env, w)
    ELSE IF req.method \in {"GET", "HEAD"} /\ req.path = "/api/health"
    THEN HealthHandler(req, hdr, trace, w, m)
    ELSE IF req.method \in {"GET", "HEAD"} /\ req.path = "/api/info"
    THEN InfoHandler(req, hdr, trace, env, w)
    ELSE FinalHandler(req, hdr, 404, trace)

\* Content type express.static infers from the file name
StaticType(path) ==
    [media |-> CASE path = "/" -> "text/html"
                 [] path = "/logo.png" -> "image/png"
                 [] OTHER -> "application/octet-stream",
     charset |-> IF path = "/" THEN "utf-8" ELSE "none"]

\* Variant: express.static registered after the routes
StaticLookupAfterRoutes(req, hdr, trace, dir, env, w, m) ==
    IF req.path \in {"/", "/api/health", "/api/info"} \/ dir[req.path] = "absent"
    THEN Router(req, hdr, trace, env, w, m)
    ELSE IF dir[req.path] = "file"
    THEN Response(req, hdr, 200, StaticType(req.path),
                  [kind |-> "file", path |-> req.path], "static", "none", trace)
    ELSE Response(req, hdr, 301, Html,
                  [kind |-> "html", chunks |-> <<[lit |-> "Redirecting to "]>>],
                  "static", "none", trace)

\* express.static once the lookup of the path has completed: a file is
\* served, a directory is answered by a redirect to path + '/', and a
\* missing entry falls through to the routes
StaticLookup(req, hdr, trace, dir, env, w, m) ==
    CASE dir[req.path] = "file" ->
            Response(req, hdr, 200, StaticType(req.path),
                     [kind |-> "file", path |-> req.path], "static", "none", trace)
      [] dir[req.path] = "dir" ->
            Response(req, hdr, 301, Html,
                     [kind |-> "html", chunks |-> <<[lit |-> "Redirecting to "]>>],
                     "static", "none", trace)
      [] OTHER -> Router(req, hdr, trace, env, w, m)

\* express.static('public'): only GET and HEAD are looked up
StaticMw(req, hdr, trace0, env, w, m) ==
    LET trace == trace0 \o <<"static">> IN
    IF req.method \in {"GET", "HEAD"}
    THEN Suspended(req, hdr, "static", trace)
    ELSE Responded(Router(req, hdr, trace, env, w, m))

\* express.json() once the body has been read
JsonParsed(req, hdr, trace, env, w, m) ==
    IF req.body = "malformed"
    THEN Responded(FinalHandler(req, hdr, 400, trace))
    ELSE StaticMw(req, hdr, trace, env, w, m)

\* express.json(): a request without a body is passed on at once
JsonMw(req, hdr, trace0, env, w, m) ==
    LET trace == trace0 \o <<"json">> IN
    IF req.body = "none"
    THEN StaticMw(req, hdr, trace, env, w, m)
    ELSE Suspended(req, hdr, "json", trace)

\* The chain from its start: cors, then express.json
Chain(req, env, w, m) ==
    LET hdr == CorsHeaders
        trace == <<"cors">>
    IN IF req.method = "OPTIONS"
       THEN Responded(CorsPreflight(req, hdr, trace))
       ELSE JsonMw(req, hdr, trace, env, w, m)

\* A step of connection c ends in a response or in a suspension
Settle(c, res) ==
    /\ inflight' = [inflight EXCEPT ![c] = IF res.k = "wait" THEN res.entry ELSE Idle]
    /\ out' = IF res.k = "resp" THEN res.resp ELSE NoResp
    /\ Remember
    /\ UNCHANGED <<envPORT, envNODE_ENV, publicDir, phase, PORT, bound, stdout,
                   wall, mono>>

\* A request arrives on an idle connection and runs until it is answered
\* or waits for its body or for the file system
Accept(c, req) ==
    /\ phase = "listening"
    /\ inflight[c] = Idle
    /\ Settle(c, Chain(req, envNODE_ENV, wall, mono))

\* The body of a waiting request has been read
BodyRead(c) ==
    /\ inflight[c].stage = "json"
    /\ LET e == inflight[c] IN
         Settle(c, JsonParsed(e.req, e.hdr, e.trace, envNODE_ENV, wall, mono))

\* The file-system lookup of a waiting request has completed
FsDone(c) ==
    /\ inflight[c].stage = "static"
    /\ LET e == inflight[c] IN
         Settle(c, Responded(StaticLookup(e.req, e.hdr, e.trace, publicDir,
                                          envNODE_ENV, wall, mono)))

\* Time passes on the monotonic clock
Tick ==
    /\ mono < MaxTime
    /\ mono' = mono + 1
    /\ out' = NoResp
    /\ Remember
    /\ UNCHANGED <<envPORT, envNODE_ENV, publicDir, phase, PORT, bound, stdout,
                   wall, inflight>>

\* The wall clock moves on, or is set back
WallTimes == {59999, 86400000}
WallMove ==
    /\ \E w \in WallTimes \ {wall} : wall' = w
    /\ out' = NoResp
    /\ Remember
    /\ UNCHANGED <<envPORT, envNODE_ENV, publicDir, phase, PORT, bound, stdout,
                   mono, inflight>>

(***************************************************************************)
(* Initial states and specifications                                       *)
(***************************************************************************)
\* Two client connections, so that requests overlap
Conns == {"c1", "c2"}

NodeEnvs == {EnvUnset, EnvSet(<<>>), EnvSet(Production)}

NoFiles == [p \in Paths |-> "absent"]
\* 'public' is missing or empty, or it holds index.html, a file api/health,
\* a directory api/info and a file logo.png
PublicDirs ==
    {NoFiles,
     [NoFiles EXCEPT !["/"] = "file", !["/api/health"] = "file",
                     !["/api/info"] = "dir", !["/logo.png"] = "file"]}

PortChars == {"0", "8", "a", "-"}
RECURSIVE StringsUpTo(_)
StringsUpTo(n) ==
    IF n = 0 THEN {<<>>}
    ELSE LET S == StringsUpTo(n - 1) IN
         S \cup {Append(s, ch) : s \in {t \in S : Len(t) = n - 1}, ch \in PortChars}

PortInputs ==
    {EnvUnset} \cup {EnvSet(s) : s \in StringsUpTo(MaxPortLen)}
      \cup {EnvSet(<<"8", "0", "8", "0">>), EnvSet(<<"3", "0", "0", "0">>),
            EnvSet(<<"6", "5", "5", "3", "5">>), EnvSet(<<"6", "5", "5", "3", "6">>),
            EnvSet(<<"9", "9", "9", "9", "9">>)}

ServePorts == {EnvUnset}

InitWith(ports, envs, dirs) ==
    /\ envPORT \in ports
    /\ envNODE_ENV \in envs
    /\ publicDir \in dirs
    /\ phase = "start"
    /\ PORT = Undefined
    /\ bound = NotBound
    /\ stdout = <<>>
    /\ wall \in WallTimes
    /\ mono = 0
    /\ inflight = [c \in Conns |-> Idle]
    /\ out = NoResp
    /\ prevUptime = -1

Init == InitWith(ServePorts, NodeEnvs, PublicDirs)

Next ==
    \/ Load
    \/ Listen
    \/ OnListening
    \/ \E c \in Conns, req \in Requests : Accept(c, req)
    \/ \E c \in Conns : BodyRead(c)
    \/ \E c \in Conns : FsDone(c)
    \/ Tick
    \/ WallMove

Spec == Init /\ [][Next]_vars

\* The start of the process alone, over many values of PORT
InitStart == InitWith(PortInputs, NodeEnvs, {NoFiles})

NextStart ==
    \/ Load
    \/ Listen
    \/ OnListening

SpecStart == InitStart /\ [][NextStart]_vars

(***************************************************************************)
(* What the responses are measured against                                 *)
(***************************************************************************)
Sent == out.k = "resp"
SentTo(m, p) == Sent /\ out.req.method = m /\ out.req.path = p

\* The shape YYYY-MM-DDTHH:mm:ss.sssZ
IsIsoString(s) ==
    /\ Len(s) = 24
    /\ s[5] = "-" /\ s[8] = "-" /\ s[11] = "T" /\ s[14] = ":" /\ s[17] = ":"
    /\ s[20] = "." /\ s[24] = "Z"
    /\ \A i \in {1, 2, 3, 4, 6, 7, 9, 10, 12, 13, 15, 16, 18, 19, 21, 22, 23} :
          IsDigit(s[i])

Field(s, a, b) == DecValue(SubSeq(s, a, b))

\* The time an ISO string of January 1970 names, in ms since the epoch
IsoMillis(s) ==
    (Field(s, 9, 10) - 1) * 86400000 + Field(s, 12, 13) * 3600000
      + Field(s, 15, 16) * 60000 + Field(s, 18, 19) * 1000 + Field(s, 21, 23)

\* s is the ISO-8601 string of the time ms
IsoOf(s, ms) ==
    /\ IsIsoString(s)
    /\ Field(s, 1, 4) = 1970 /\ Field(s, 6, 7) = 1
    /\ Field(s, 9, 10) \in 1..31 /\ Field(s, 12, 13) < 24
    /\ Field(s, 15, 16) < 60 /\ Field(s, 18, 19) < 60
    /\ IsoMillis(s) = ms

\* e is the environment name the configuration stands for
ReportsEnv(e) ==
    /\ ~envNODE_ENV.set => e = Development
    /\ (envNODE_ENV.set /\ envNODE_ENV.val # <<>>) => e = envNODE_ENV.val

\* The tabulated body of /api/health
HealthOK(r) ==
    /\ r.status = 200
    /\ r.ctype.media = "application/json"
    /\ r.body.kind = "json"
    /\ DOMAIN r.body.json = {"status", "timestamp", "uptime"}
    /\ r.body.json.status = "healthy"
    /\ IsoOf(r.body.json.timestamp, wall)
    /\ r.body.json.uptime >= 0

\* The tabulated body of /api/info
InfoOK(r) ==
    /\ r.status = 200
    /\ r.ctype.media = "application/json"
    /\ r.body.kind = "json"
    /\ DOMAIN r.body.json =
          {"status", "message", "version", "node_version", "environment", "timestamp"}
    /\ r.body.json.status = "success"
    /\ r.body.json.message = "Simple Blog App Node.js Application"
    /\ r.body.json.version = "1.0.0"
    /\ r.body.json.node_version = ProcessVersion
    /\ r.body.json.node_version[1] = "v"
    /\ ReportsEnv(r.body.json.environment)
    /\ IsoOf(r.body.json.timestamp, wall)

HasLit(r, text) == \E i \in DOMAIN r.body.chunks : r.body.chunks[i] = [lit |-> text]
HasVal(r, v) == \E i \in DOMAIN r.body.chunks : r.body.chunks[i] = [val |-> v]
Vals(r) ==
    {r.body.chunks[i].val : i \in {j \in DOMAIN r.body.chunks :
                                      DOMAIN r.body.chunks[j] = {"val"}}}

\* The home page
HomeOK(r) ==
    /\ r.status = 200
    /\ r.ctype.media = "text/html"
    /\ r.body.kind = "html"
    /\ HasLit(r, "Simple Blog App")
    /\ HasVal(r, ProcessVersion)
    /\ \E e \in Vals(r) : ReportsEnv(e) /\ (envNODE_ENV.set => e # ProcessVersion)
    /\ \E t \in Vals(r) : IsoOf(t, wall)

\* The request gets past express.json and express.static to the routes
ReachesRoute(req) ==
    /\ req.body # "malformed"
    /\ publicDir[req.path] = "absent"

(***************************************************************************)
(* C1                                                                      *)
(***************************************************************************)
\* C1 as stated: every GET /api/health, whatever body it carries and
\* whatever came before, is answered 200 with a JSON body of exactly the
\* keys status = "healthy", timestamp = the ISO string of the current time,
\* and uptime >= 0.
C1_Original == SentTo("GET", "/api/health") => HealthOK(out)

\* C1 as amended: every GET /api/health without conditional headers whose
\* body, if it has one, parses as JSON, and for which 'public' holds no
\* entry api/health, is answered
\* 200 with a JSON body of exactly the keys status = "healthy", timestamp =
\* the ISO string of the current time, and uptime >= 0, whatever came before.
C1_Health ==
    (SentTo("GET", "/api/health") /\ ReachesRoute(out.req)) => HealthOK(out)

C1_Witness ==
    /\ SentTo("GET", "/api/health")
    /\ out.req.body = "json"
    /\ HealthOK(out)
    /\ out.body.json.uptime > 0
    /\ prevUptime >= 0
    /\ \E c \in Conns : inflight[c] # Idle

(***************************************************************************)
(* C2                                                                      *)
(***************************************************************************)
\* C2 as stated: every GET /api/info is answered 200 with a JSON body equal
\* to {status, message, version, node_version, environment, timestamp} as
\* tabulated, and no other key.
C2_Original == SentTo("GET", "/api/info") => InfoOK(out)

\* C2 as amended: every GET /api/info without conditional headers whose
\* body, if it has one, parses as JSON, and for which 'public' holds no
\* entry api/info, is answered 200 with a JSON body equal to the tabulated
\* object, and no other key.
C2_Info ==
    (SentTo("GET", "/api/info") /\ ReachesRoute(out.req)) => InfoOK(out)

C2_Witness ==
    /\ SentTo("GET", "/api/info")
    /\ ReachesRoute(out.req)
    /\ InfoOK(out)
    /\ envNODE_ENV = EnvSet(Production)
    /\ out.body.json.environment = Production

Listened == phase \in {"bound", "listening", "crashed"}
Tcp(n) == [kind |-> "tcp", port |-> n]
IsNumeral(s) == s # <<>> /\ AllDigits(s)

\* C4 as stated: the listener binds the numeric value of PORT when PORT is
\* set to a number, and 3000 when PORT is unset or is no number.
C4_Original ==
    Listened =>
        IF envPORT.set /\ IsNumeral(envPORT.val)
        THEN bound = Tcp(DecValue(envPORT.val))
        ELSE bound = Tcp(3000)

\* Number(s) is NaN or below zero
NoPortNumber(s) == JsNumber(s).nan \/ JsNumber(s).n < 0

\* C4 as amended: what the listener binds is a function of PORT alone where
\* PORT is unset, empty, a decimal number in 1..65535 or a string that
\* converts to no number >= 0: the numeric value of PORT for a number in
\* 1..65535 (PORT=8080 binds 8080), 3000 when PORT is unset or empty, and
\* for a string that converts to no number >= 0 not 3000 but the local
\* socket path of that name.
C4_Port ==
    Listened =>
        /\ (~envPORT.set \/ envPORT.val = <<>>) => bound = Tcp(3000)
        /\ (envPORT.set /\ IsNumeral(envPORT.val)
              /\ DecValue(envPORT.val) \in 1..65535) =>
                 bound = Tcp(DecValue(envPORT.val))
        /\ (envPORT.set /\ envPORT.val # <<>> /\ NoPortNumber(envPORT.val)) =>
                 bound = [kind |-> "pipe", path |-> envPORT.val]

C4_Witness ==
    /\ phase = "listening"
    /\ envPORT = EnvSet(<<"8", "0", "8", "0">>)
    /\ bound = Tcp(8080)
    /\ envNODE_ENV = EnvSet(Production)

(***************************************************************************)
(* C5                                                                      *)
(***************************************************************************)
\* The environment the home page shows: the value after "Environment:"
HomeShownEnv(r) ==
    LET i == CHOOSE j \in DOMAIN r.body.chunks :
                 r.body.chunks[j] = [lit |-> "Environment:"]
    IN r.body.chunks[i + 1].val

\* The environment the second startup line names
StartupShownEnv == stdout[2][2].val

ShowsUptime(r) == r.k = "resp" /\ r.handler = "health" /\ r.body.kind = "json"

\* C6: the uptime of a GET /api/health response is never below the uptime
\* of the GET /api/health response written before it, whatever was
\* handled in between.
C6_Uptime ==
    (ShowsUptime(out) /\ prevUptime # -1) => out.body.json.uptime >= prevUptime

C6_Witness ==
    /\ ShowsUptime(out)
    /\ prevUptime >= 0
    /\ out.body.json.uptime > prevUptime
    /\ wall = 59999

(***************************************************************************)
(* C7                                                                      *)
(***************************************************************************)
\* C7: every response written carries Access-Control-Allow-Origin: *, be it
\* a route's, a static file's, a 404 or the answer to an unparseable body.
C7_Cors == Sent => out.acao = "*"

C7_Witness ==
    /\ Sent
    /\ out.by = "final"
    /\ out.status = 400
    /\ out.acao = "*"

(***************************************************************************)
(* C8                                                                      *)
(***************************************************************************)
NotFinal(x) == x # "final"
IsPrefix(a, b) == Len(a) <= Len(b) /\ SubSeq(b, 1, Len(a)) = a
InOrder(trace) ==
    /\ trace # <<>>
    /\ IsPrefix(SelectSeq(trace, NotFinal), <<"cors", "json", "static", "route">>)

RoutePaths == {"/", "/api/health", "/api/info"}
HandlerOf(p) ==
    CASE p = "/" -> "home" [] p = "/api/health" -> "health" [] p = "/api/info" -> "info"
      [] OTHER -> "none"
TabulatedOK(r) ==
    CASE r.req.path = "/" -> HomeOK(r)
      [] r.req.path = "/api/health" -> HealthOK(r)
      [] r.req.path = "/api/info" -> InfoOK(r)
      [] OTHER -> FALSE
TabulatedType(p) == IF p = "/" THEN "text/html" ELSE "application/json"

\* A GET on a route that passes the middleware and gets the route's response
GetRouteOutcome(r) ==
    /\ r.req.method = "GET" /\ r.req.path \in RoutePaths
    /\ ReachesRoute(r.req)
    /\ r.handler = HandlerOf(r.req.path)
    /\ TabulatedOK(r)

\* A HEAD on a route that passes the middleware: the route's status and
\* type, no body
HeadRouteOutcome(r) ==
    /\ r.req.method = "HEAD" /\ r.req.path \in RoutePaths
    /\ ReachesRoute(r.req)
    /\ r.handler = HandlerOf(r.req.path)
    /\ r.status = 200 /\ r.ctype.media = TabulatedType(r.req.path)
    /\ r.body = NoBody

\* A status of the framework, no handler of the application
FrameworkOutcome(r) ==
    /\ r.by = "final" /\ r.handler = "none"
    /\ r.body.kind = "html" => ~HasLit(r, "Simple Blog App")
    /\ \/ /\ r.status = 400 /\ r.req.body = "malformed"
       \/ /\ r.status = 404 /\ r.req.body # "malformed"
          /\ publicDir[r.req.path] = "absent" \/ r.req.method \notin {"GET", "HEAD"}
          /\ r.req.method \notin {"GET", "HEAD"} \/ r.req.path \notin RoutePaths

\* The static middleware answers: the file, or a redirect for a directory
StaticOutcome(r) ==
    /\ r.by = "static" /\ r.handler = "none"
    /\ r.req.method \in {"GET", "HEAD"} /\ r.req.body # "malformed"
    /\ \/ publicDir[r.req.path] = "file" /\ r.status = 200
       \/ publicDir[r.req.path] = "dir" /\ r.status = 301

\* The CORS middleware answers an OPTIONS request
PreflightOutcome(r) ==
    /\ r.by = "cors" /\ r.handler = "none"
    /\ r.req.method = "OPTIONS"
    /\ r.status = 204 /\ r.body = NoBody

StillServing == phase = "listening" /\ \E c \in Conns : inflight[c] = Idle

Count(bs) == Cardinality({i \in DOMAIN bs : bs[i]})

\* C9 as stated: every request either is a GET on one of the three routes
\* that passes the middleware and gets the route's tabulated 200 response,
\* or gets a framework status (404, or 400 for an unparseable body) with no
\* handler run; and the server keeps serving.
C9_Original ==
    Sent =>
        /\ Count(<<GetRouteOutcome(out), FrameworkOutcome(out)>>) = 1
        /\ ~GetRouteOutcome(out) => out.handler = "none"
        /\ StillServing

\* C9 as amended: every request without conditional or range headers has
\* exactly one of four outcomes: a GET or HEAD on one of the three routes
\* that passes the middleware gets the route's 200 response (the tabulated
\* body, none for HEAD); a GET or HEAD whose body parses and whose path names
\* an entry of 'public' gets the static middleware's answer (the file, or a
\* redirect for a directory); an OPTIONS request gets the CORS preflight 204;
\* any other request gets a framework status (404 for an unmatched path or
\* method, 400 for an unparseable body).  A handler runs only in the first
\* case, and the server keeps serving.
C9_Outcomes ==
    Sent =>
        /\ Count(<<GetRouteOutcome(out) \/ HeadRouteOutcome(out),
                   StaticOutcome(out), PreflightOutcome(out),
                   FrameworkOutcome(out)>>) = 1
        /\ ~(GetRouteOutcome(out) \/ HeadRouteOutcome(out)) => out.handler = "none"
        /\ StillServing

C9_Witness ==
    /\ Sent
    /\ FrameworkOutcome(out)
    /\ out.status = 400
    /\ out.req.method = "GET"
    /\ out.req.path \in RoutePaths
    /\ publicDir[out.req.path] = "absent"

(***************************************************************************)
(* C10                                                                     *)
(***************************************************************************)
\* The environment name of a configuration
EnvNameOf(e) == IF e.set /\ e.val # <<>> THEN e.val ELSE Development

\* What a client sees of a response
Observable(r) ==
    [status |-> r.status, ctype |-> r.ctype, acao |-> r.acao, body |-> r.body]

Seen(req, status, ctype, body) ==
    [status |-> status, ctype |-> ctype, acao |-> "*",
     body |-> IF req.method = "HEAD" THEN NoBody ELSE body]

\* The response as a function of the request, the configuration, the
\* runtime version, the static directory and the two clocks
PureResponse(req, e, dir, w, m) ==
    IF req.method = "OPTIONS" THEN Seen(req, 204, NoType, NoBody)
    ELSE IF req.body = "malformed"
    THEN Seen(req, 400, Html, [kind |-> "html", chunks |-> <<[lit |-> "Bad Request"]>>])
    ELSE IF req.method = "POST"
    THEN Seen(req, 404, Html, [kind |-> "html", chunks |-> <<[lit |-> "Cannot "]>>])
    ELSE IF dir[req.path] = "file"
    THEN Seen(req, 200, StaticType(req.path), [kind |-> "file", path |-> req.path])
    ELSE IF dir[req.path] = "dir"
    THEN Seen(req, 301, Html,
              [kind |-> "html", chunks |-> <<[lit |-> "Redirecting to "]>>])
    ELSE IF req.path = "/"
    THEN Seen(req, 200, Html,
              [kind |-> "html",
               chunks |-> <<[lit |-> "<title>"], [lit |-> "Simple Blog App"],
                            [lit |-> "</title>"], [lit |-> "<h1>"],
                            [lit |-> "Simple Blog App"], [lit |-> "</h1>"],
                            [lit |-> "Node.js Version:"], [val |-> ProcessVersion],
                            [lit |-> "Environment:"], [val |-> EnvNameOf(e)],
                            [lit |-> "Timestamp:"], [val |-> ToISOString(w)],
                            [lit |-> "API Endpoints"]>>])
    ELSE IF req.path = "/api/health"
    THEN Seen(req, 200, Json,
              [kind |-> "json",
               json |-> [status |-> "healthy", timestamp |-> ToISOString(w),
                         uptime |-> m]])
    ELSE IF req.path = "/api/info"
    THEN Seen(req, 200, Json,
              [kind |-> "json",
               json |-> [status |-> "success",
                         message |-> "Simple Blog App Node.js Application",
                         version |-> "1.0.0", node_version |-> ProcessVersion,
                         environment |-> EnvNameOf(e),
                         timestamp |-> ToISOString(w)]])
    ELSE Seen(req, 404, Html, [kind |-> "html", chunks |-> <<[lit |-> "Cannot "]>>])

====
